---- MODULE Spec2Model ----
(***************************************************************************)
(* Plugin lifecycle / permission subsystem of DART:                        *)
(*   modules/plugin_loader.py   PluginLoader (discovery, stage runs)       *)
(*   modules/localization.py    LocalizationManager (catalog, permissions) *)
(*   manage_permissions.py      maintenance CLI on the permission file     *)
(***************************************************************************)
EXTENDS Integers, Sequences, FiniteSets, TLC

VARIABLES
    glob_order,          \* order in which plugins_dir.glob("*.py") yields the files
    import_error,        \* what importing the module that fails to import raises
    disk,                \* what happens when the store opens its file for writing
    stdin,               \* whether input() can read an answer or raises EOFError
    metadata,            \* heap of PluginMetadata objects, in creation order
    plugins,             \* PluginLoader.plugins: name -> registered record
    plugin_funcs,        \* PluginLoader.plugin_funcs: stage -> list of entries
    plugin_context,      \* main.plugin_context: the keys the entry points have written
    current_language,    \* LocalizationManager.current_language
    plugin_translations, \* LocalizationManager.plugin_translations
    permission_cache,    \* LocalizationManager.permission_cache
    plugin_permissions,  \* LocalizationManager.plugin_permissions
    perm_file,           \* ~/.tdcs/permissions.json
    default_manager,     \* localization._default_manager
    constructed_from,    \* history: kind of the file when this store was constructed
    asked,               \* history: prompts shown by this store, per pair
    first_decision,      \* history: decision first recorded in this store, per pair
    n_loads,             \* load_all_plugins calls of this session
    n_toggles,           \* enable_plugin / disable_plugin calls of this session
    requested_enabled,   \* history: per entry, what the last successful
                         \* enable_plugin / disable_plugin of its name asked for
    last                 \* the last operation: its name, arguments and return value

vars == <<glob_order, import_error, disk, stdin, default_manager, metadata, plugins, plugin_funcs, plugin_context,
          current_language, plugin_translations, permission_cache, plugin_permissions,
          perm_file, constructed_from, asked, first_decision, n_loads, n_toggles,
          requested_enabled, last>>

loader_vars == <<metadata, plugins, plugin_funcs, n_loads, n_toggles, requested_enabled>>
store_vars == <<permission_cache, plugin_permissions, perm_file, constructed_from,
                asked, first_decision>>

(***************************************************************************)
(* Bounds                                                                  *)
(***************************************************************************)
MaxLoads == 2
MaxToggles == 2
MaxPerms == 2

(***************************************************************************)
(* Generic helpers                                                         *)
(***************************************************************************)
None == "None"

EmptyMap == [x \in {} |-> x]

Put(f, k, v) == [x \in (DOMAIN f) \cup {k} |-> IF x = k THEN v ELSE f[x]]

Drop(f, k) == [x \in (DOMAIN f) \ {k} |-> f[x]]

Get(f, k, default) == IF k \in DOMAIN f THEN f[k] ELSE default

Range(s) == {s[i] : i \in DOMAIN s}

(***************************************************************************)
(* Inputs: the plugin directory, the translation files, the capabilities   *)
(***************************************************************************)
SUPPORTED_LANGUAGES == <<"ko", "en">>
DEFAULT_LANGUAGE == "ko"
FALLBACK_LANGUAGE == "en"

Stages == {"pre-main", "splash", "post-main"}

Capabilities == {"read_main_locales", "write_locales"}

PluginMetadata(name, stage, priority, enabled, permissions) ==
    [name |-> name, stage |-> stage, priority |-> priority,
     enabled |-> enabled, permissions |-> permissions]

\* A plugins directory shaped like modules/plugins: one module declaring several
\* entry points (one of them disabled, one requesting a capability), one module
\* re-using the name of another module's entry point, and one module that fails
\* to import.  attrs is in dir(module) order.
PluginsDir ==
    [sample |->
        [raises |-> FALSE,
         attrs |-> << PluginMetadata("sample_disabled", "splash", 1, FALSE, <<>>),
                      PluginMetadata("sample_init", "pre-main", 1, TRUE, <<>>),
                      PluginMetadata("sample_permission_request", "splash", 1, TRUE,
                                     <<"read_main_locales">>),
                      PluginMetadata("sample_splash", "splash", 5, TRUE, <<>>) >>],
     sample_splash |->
        [raises |-> FALSE,
         attrs |-> << PluginMetadata("sample_splash", "splash", 1, TRUE, <<>>) >>],
     broken |->
        [raises |-> TRUE, attrs |-> <<>>]]

Files == DOMAIN PluginsDir

\* what exec_module can raise for a module that fails to import: an Exception
\* (ImportError, SyntaxError, ...) or an exception outside Exception (sys.exit() at
\* module level)
ImportErrors ==
    {[type |-> "ImportError", is_exception |-> TRUE],
     [type |-> "SystemExit", is_exception |-> FALSE]}

GlobOrders ==
    {s \in [1..Cardinality(Files) -> Files] : Range(s) = Files}

PluginNames ==
    UNION {{PluginsDir[f].attrs[i].name : i \in DOMAIN PluginsDir[f].attrs} : f \in Files}

\* names used with enable_plugin / disable_plugin / get_plugin_info
ToggleNames == {"sample_splash", "sample_disabled", "unknown_plugin"}

\* names used with request_plugin_permission and as get_text scopes
RequestNames == {"sample_permission_request", "sample_splash"}

AllPairs == RequestNames \X Capabilities

\* locales/<lang>/<namespace>.json of the host, keys already prefixed
MainLocales ==
    [ko |-> ("common.title" :> "ko:common.title")
            @@ ("splash.loading_splash" :> "ko:splash.loading_splash"),
     en |-> ("common.title" :> "en:common.title")
            @@ ("common.welcome" :> "en:common.welcome")]

\* modules/plugins/locales/<lang>/*.json, shared by every module of the directory
PluginLocales ==
    [ko |-> ("greeting" :> "ko:greeting") @@ ("initializing" :> "ko:initializing"),
     en |-> ("greeting" :> "en:greeting") @@ ("resources_loaded" :> "en:resources_loaded")]

Keys == {"common.title", "common.welcome", "splash.loading_splash",
         "greeting", "initializing", "resources_loaded", "missing.key"}

Defaults == {None, "", "default text"}

Languages == {"ko", "en", "fr"}

(***************************************************************************)
(* The permission file: a JSON object of JSON objects of JSON booleans     *)
(***************************************************************************)
MissingFile == [kind |-> "missing", members |-> {}]
CorruptFile == [kind |-> "corrupt", members |-> {}]

JsonBool(b) == IF b THEN "true" ELSE "false"

\* a dump that writes the granted permissions only
JsonDumpGrantedOnly(cache) ==
    [kind |-> "json",
     members |-> {[key |-> n,
                   value |-> {[key |-> p, value |-> "true"]
                                 : p \in {q \in DOMAIN cache[n] : cache[n][q]}}]
                     : n \in DOMAIN cache}]

\* json.dump(permission_cache, f): the text holds one member per plugin, whose value
\* holds one member per permission with the literal true or false
JsonDump(cache) ==
    [kind |-> "json",
     members |-> {[key |-> n,
                   value |-> {[key |-> p, value |-> JsonBool(cache[n][p])]
                                 : p \in DOMAIN cache[n]}]
                     : n \in DOMAIN cache}]

\* json.load(f) of a parseable file
JsonLoad(file) ==
    [n \in {m.key : m \in file.members} |->
        LET obj == (CHOOSE m \in file.members : m.key = n).value
        IN [p \in {x.key : x \in obj} |->
                (CHOOSE x \in obj : x.key = p).value = "true"]]

\* LocalizationManager._load_permissions_from_file: the cache stays as it was
\* when the file is missing or json.load raises
LoadPermissionsFromFile(cache, file) ==
    IF file.kind = "json" THEN JsonLoad(file) ELSE cache

\* open(file, 'w') followed by json.dump: the file is written; or open raises and
\* the file stays as it was; or open has emptied the file and the write raises
DiskOutcomes == {"written", "refused", "truncated"}

\* the console of the host: input() returns the operator's answer, or there is no
\* console to read from and input() raises EOFError
StdinStates == {"tty", "closed"}

\* a save that leaves a file it cannot parse alone
SaveUnlessUnparseable(L) ==
    [L EXCEPT !.perm_file = IF @.kind = "corrupt" THEN @
                            ELSE IF L.disk = "written" THEN JsonDump(L.permission_cache)
                            ELSE IF L.disk = "truncated" THEN CorruptFile
                            ELSE @,
              !.writes = @ + 1]

\* LocalizationManager._save_permissions_to_file: whatever the write raises is
\* caught and logged
SavePermissionsToFile(L) ==
    [L EXCEPT !.perm_file = IF L.disk = "written" THEN JsonDump(L.permission_cache)
                            ELSE IF L.disk = "truncated" THEN CorruptFile
                            ELSE @,
              !.writes = @ + 1]

(***************************************************************************)
(* LocalizationManager: permissions                                        *)
(***************************************************************************)
\* The part of a LocalizationManager the permission code reads and writes, with
\* the call's result and its history (prompts shown, file writes made).
StoreState ==
    [permission_cache |-> permission_cache,
     plugin_permissions |-> plugin_permissions,
     perm_file |-> perm_file,
     disk |-> disk,
     stdin |-> stdin,
     status |-> "returned",
     asked |-> asked,
     first_decision |-> first_decision,
     prompted |-> <<>>,
     writes |-> 0,
     result |-> EmptyMap,
     need_save |-> FALSE]

CheckPermissionIn(perms, plugin_name, permission) ==
    IF permission = "read_locales" THEN TRUE
    ELSE IF plugin_name \in DOMAIN perms THEN permission \in perms[plugin_name]
    ELSE FALSE

CheckPermission(plugin_name, permission) ==
    CheckPermissionIn(plugin_permissions, plugin_name, permission)

GetPluginPermissions(plugin_name) == Get(plugin_permissions, plugin_name, {})

\* a grant recorded for every plugin that has a permission list
GrantToEveryPlugin(L, plugin_name, permission) ==
    [L EXCEPT !.plugin_permissions =
        [n \in (DOMAIN @) \cup {plugin_name} |-> Get(@, n, {}) \cup {permission}]]

GrantPluginPermission(L, plugin_name, permission) ==
    [L EXCEPT !.plugin_permissions =
        Put(@, plugin_name, Get(@, plugin_name, {}) \cup {permission})]

DenyPluginPermission(L, plugin_name, permission) ==
    IF plugin_name \in DOMAIN L.plugin_permissions
    THEN [L EXCEPT !.plugin_permissions[plugin_name] = @ \ {permission}]
    ELSE L

\* a decision saved to the file as soon as it is recorded
RecordDecisionAndSave(L, plugin_name, permission, granted) ==
    LET pair == <<plugin_name, permission>>
        L1 == [L EXCEPT
                 !.result = Put(@, permission, granted),
                 !.permission_cache =
                     Put(@, plugin_name, Put(Get(@, plugin_name, EmptyMap), permission, granted)),
                 !.need_save = TRUE,
                 !.prompted = Append(@, pair),
                 !.asked = Put(@, pair, Get(@, pair, 0) + 1),
                 !.first_decision =
                     IF pair \in DOMAIN @ THEN @ ELSE Put(@, pair, granted)]
    IN SavePermissionsToFile(IF granted THEN GrantPluginPermission(L1, plugin_name, permission)
                             ELSE DenyPluginPermission(L1, plugin_name, permission))

\* the part of the loop body of request_plugin_permission that records a new decision
RecordDecision(L, plugin_name, permission, granted) ==
    LET pair == <<plugin_name, permission>>
        L1 == [L EXCEPT
                 !.result = Put(@, permission, granted),
                 !.permission_cache =
                     Put(@, plugin_name, Put(Get(@, plugin_name, EmptyMap), permission, granted)),
                 !.need_save = TRUE,
                 !.prompted = Append(@, pair),
                 !.asked = Put(@, pair, Get(@, pair, 0) + 1),
                 !.first_decision =
                     IF pair \in DOMAIN @ THEN @ ELSE Put(@, pair, granted)]
    IN IF granted THEN GrantPluginPermission(L1, plugin_name, permission)
       ELSE DenyPluginPermission(L1, plugin_name, permission)

\* a cache lookup under the permission name alone
IsCachedByPermission(cache, plugin_name, permission) ==
    /\ permission \in DOMAIN cache
    /\ plugin_name \in DOMAIN cache[permission]

\* a cache lookup that remembers the grants only
IsCachedWhenGranted(cache, plugin_name, permission) ==
    /\ plugin_name \in DOMAIN cache
    /\ permission \in DOMAIN cache[plugin_name]
    /\ cache[plugin_name][permission]

IsCached(cache, plugin_name, permission) ==
    /\ plugin_name \in DOMAIN cache
    /\ permission \in DOMAIN cache[plugin_name]

\* _ask_user_permission when input() raises EOFError: the prompt was printed, and
\* the error leaves request_plugin_permission before anything is recorded
AskRaises(L, plugin_name, permission) ==
    LET pair == <<plugin_name, permission>>
    IN [L EXCEPT !.status = "raised",
                 !.prompted = Append(@, pair),
                 !.asked = Put(@, pair, Get(@, pair, 0) + 1)]

RECURSIVE RequestLoop(_, _, _, _, _)
RequestLoop(L, plugin_name, permissions, i, answers) ==
    IF i > Len(permissions) THEN L
    ELSE LET permission == permissions[i]
         IN IF IsCached(L.permission_cache, plugin_name, permission)
            THEN RequestLoop(
                    [L EXCEPT !.result =
                        Put(@, permission, L.permission_cache[plugin_name][permission])],
                    plugin_name, permissions, i + 1, answers)
            ELSE IF L.stdin = "closed" THEN AskRaises(L, plugin_name, permission)
            ELSE RequestLoop(
                    RecordDecision(L, plugin_name, permission,
                                   answers[<<plugin_name, permission>>]),
                    plugin_name, permissions, i + 1, answers)

\* LocalizationManager.request_plugin_permission; answers is what the operator
\* answers to _ask_user_permission for each pair
RequestPluginPermission(L, plugin_name, permissions, answers) ==
    LET L0 == [L EXCEPT !.result = EmptyMap, !.need_save = FALSE, !.status = "returned"]
        L1 == RequestLoop(L0, plugin_name, permissions, 1, answers)
    IN IF L1.status = "raised" THEN L1
       ELSE IF L1.need_save THEN SavePermissionsToFile(L1) ELSE L1

(***************************************************************************)
(* LocalizationManager: the catalog                                        *)
(***************************************************************************)
\* "default or key": None and the empty string are both falsy
DefaultOrKey(key, default) ==
    IF default = None \/ default = "" THEN key ELSE default

HasKey(table, lang, key) ==
    /\ lang \in DOMAIN table
    /\ key \in DOMAIN table[lang]

\* the lookup chain of get_text in one namespace: current language, "ko", "en"
LookupChain(table, lang, key, default) ==
    IF HasKey(table, lang, key) THEN table[lang][key]
    ELSE IF HasKey(table, "ko", key) THEN table["ko"][key]
    ELSE IF HasKey(table, "en", key) THEN table["en"][key]
    ELSE DefaultOrKey(key, default)

\* a plugin lookup that goes on to the host's tables when the plugin has no value
GetTextThroughMain(perms, ptrans, lang, key, plugin_name, default) ==
    IF plugin_name # None /\ plugin_name \in DOMAIN ptrans
       /\ \E l \in {lang, "ko", "en"} : HasKey(ptrans[plugin_name], l, key)
    THEN LookupChain(ptrans[plugin_name], lang, key, default)
    ELSE LookupChain(MainLocales, lang, key, default)

\* a plugin lookup that goes on to the namespaces of the other plugins when the
\* plugin's own has no value
GetTextAcrossPlugins(perms, ptrans, lang, key, plugin_name, default) ==
    LET holders == {n \in DOMAIN ptrans :
                       \E l \in {lang, "ko", "en"} : HasKey(ptrans[n], l, key)}
    IN IF plugin_name = None THEN LookupChain(MainLocales, lang, key, default)
       ELSE IF plugin_name \in holders
            THEN LookupChain(ptrans[plugin_name], lang, key, default)
            ELSE IF holders # {}
                 THEN LookupChain(ptrans[CHOOSE n \in holders : TRUE], lang, key, default)
                 ELSE DefaultOrKey(key, default)

\* LocalizationManager.get_text, with the state it reads as parameters
GetTextIn(perms, ptrans, lang, key, plugin_name, default) ==
    IF plugin_name # None
    THEN IF ~CheckPermissionIn(perms, plugin_name, "read_locales")
         THEN DefaultOrKey(key, default)
         ELSE IF plugin_name \in DOMAIN ptrans
              THEN LookupChain(ptrans[plugin_name], lang, key, default)
              ELSE DefaultOrKey(key, default)
    ELSE LookupChain(MainLocales, lang, key, default)

GetText(key, plugin_name, default) ==
    GetTextIn(plugin_permissions, plugin_translations, current_language,
              key, plugin_name, default)

\* LocalizationManager.load_plugin_translations(plugin_name, plugin_dir): every module
\* of the directory has the same plugin_dir, hence the same locales/ files
LoadPluginTranslations(ptrans, plugin_name) ==
    IF DOMAIN PluginLocales = {} THEN ptrans
    ELSE Put(ptrans, plugin_name, PluginLocales)

\* _default_manager before the first call of get_localization_manager()
NoManager ==
    [created |-> FALSE, current_language |-> DEFAULT_LANGUAGE,
     plugin_translations |-> EmptyMap, plugin_permissions |-> EmptyMap,
     permission_cache |-> EmptyMap]

\* get_localization_manager(): the module's own instance, constructed by the first
\* call from the permission file as it is then
GetLocalizationManager(manager, file) ==
    IF manager.created THEN manager
    ELSE [created |-> TRUE, current_language |-> DEFAULT_LANGUAGE,
          plugin_translations |-> EmptyMap, plugin_permissions |-> EmptyMap,
          permission_cache |-> LoadPermissionsFromFile(EmptyMap, file)]

(***************************************************************************)
(* PluginLoader: discovery                                                 *)
(***************************************************************************)
\* where a sorted list takes a new entry so that equal keys keep their order
InsertByPriority(sorted, m, md) ==
    LET k == Cardinality({i \in 1..Len(sorted) :
                            md[sorted[i]].priority >= md[m].priority})
    IN SubSeq(sorted, 1, k) \o <<m>> \o SubSeq(sorted, k + 1, Len(sorted))

RECURSIVE InsertionSort(_, _)
InsertionSort(list, md) ==
    IF list = <<>> THEN <<>>
    ELSE InsertByPriority(InsertionSort(SubSeq(list, 1, Len(list) - 1), md),
                          list[Len(list)], md)

\* a sort that puts a new entry before the entries of equal priority
RECURSIVE UnstableSort(_, _)
UnstableSort(list, md) ==
    IF list = <<>> THEN <<>>
    ELSE LET rest == UnstableSort(SubSeq(list, 1, Len(list) - 1), md)
             m == list[Len(list)]
             k == Cardinality({i \in 1..Len(rest) :
                                 md[rest[i]].priority > md[m].priority})
         IN SubSeq(rest, 1, k) \o <<m>> \o SubSeq(rest, k + 1, Len(rest))

SortByPriorityUnstable(list, md) == UnstableSort(list, md)

\* list.sort(key=lambda x: x[0].priority, reverse=True): stable, descending
SortByPriority(list, md) == InsertionSort(list, md)

\* The loader and its localization manager while load_all_plugins runs.
LoaderState ==
    [metadata |-> metadata,
     plugins |-> plugins,
     plugin_funcs |-> plugin_funcs,
     plugin_translations |-> plugin_translations,
     store |-> StoreState,
     import_error |-> import_error,
     status |-> "returned",
     failed |-> <<>>,
     plugin_count |-> 0]

\* PluginLoader._handle_plugin_permissions
HandlePluginPermissions(store, md, answers) ==
    RequestPluginPermission(store, md.name, md.permissions, answers)

\* a registration that leaves the declared permissions for later
RegisterPluginWithoutRequest(S, module_name, decl, answers) ==
    LET id == Len(S.metadata) + 1
        md == Append(S.metadata,
                     [name |-> decl.name, stage |-> decl.stage,
                      priority |-> decl.priority, enabled |-> decl.enabled,
                      permissions |-> decl.permissions, module |-> module_name])
        funcs == Append(Get(S.plugin_funcs, decl.stage, <<>>), id)
    IN [S EXCEPT
          !.metadata = md,
          !.plugins = Put(@, decl.name,
                          [metadata |-> id, func |-> id, module |-> module_name]),
          !.plugin_funcs = Put(@, decl.stage, SortByPriority(funcs, md)),
          !.plugin_translations = LoadPluginTranslations(@, decl.name),
          !.plugin_count = @ + 1]

\* a registration that is dropped when the operator denies a declared permission
RegisterPluginUnlessDenied(S, module_name, decl, answers) ==
    LET id == Len(S.metadata) + 1
        md == Append(S.metadata,
                     [name |-> decl.name, stage |-> decl.stage,
                      priority |-> decl.priority, enabled |-> decl.enabled,
                      permissions |-> decl.permissions, module |-> module_name])
        funcs == Append(Get(S.plugin_funcs, decl.stage, <<>>), id)
        store == IF decl.permissions # <<>>
                 THEN HandlePluginPermissions(S.store, decl, answers)
                 ELSE S.store
    IN IF \E p \in DOMAIN store.result : ~store.result[p]
       THEN [S EXCEPT !.store = store]
       ELSE [S EXCEPT
               !.metadata = md,
               !.plugins = Put(@, decl.name,
                               [metadata |-> id, func |-> id, module |-> module_name]),
               !.plugin_funcs = Put(@, decl.stage, SortByPriority(funcs, md)),
               !.plugin_translations = LoadPluginTranslations(@, decl.name),
               !.store = store,
               !.plugin_count = @ + 1]

\* the body of the attribute loop of load_all_plugins for one decorated attribute
RegisterPlugin(S, module_name, decl, answers) ==
    LET id == Len(S.metadata) + 1
        md == Append(S.metadata,
                     [name |-> decl.name, stage |-> decl.stage,
                      priority |-> decl.priority, enabled |-> decl.enabled,
                      permissions |-> decl.permissions, module |-> module_name])
        funcs == Append(Get(S.plugin_funcs, decl.stage, <<>>), id)
    IN [S EXCEPT
          !.metadata = md,
          !.plugins = Put(@, decl.name,
                          [metadata |-> id, func |-> id, module |-> module_name]),
          !.plugin_funcs = Put(@, decl.stage, SortByPriority(funcs, md)),
          !.plugin_translations = LoadPluginTranslations(@, decl.name),
          !.store = IF decl.permissions # <<>>
                    THEN HandlePluginPermissions(@, decl, answers)
                    ELSE [@ EXCEPT !.status = "returned"],
          !.plugin_count =
              IF decl.permissions # <<>>
                 /\ HandlePluginPermissions(S.store, decl, answers).status = "raised"
              THEN @ ELSE @ + 1]

\* the attribute loop from attribute i; an error raised in the loop body (EOFError
\* of the permission prompt) ends it and reaches the handler of the file
RECURSIVE LoadAttrs(_, _, _, _, _)
LoadAttrs(S, module_name, attrs, i, answers) ==
    IF i > Len(attrs) THEN S
    ELSE LET S1 == RegisterPlugin(S, module_name, attrs[i], answers)
         IN IF S1.store.status = "raised"
            THEN [S1 EXCEPT !.failed = Append(@, module_name)]
            ELSE LoadAttrs(S1, module_name, attrs, i + 1, answers)

\* the try block of load_all_plugins for one file: exec_module raising leaves the
\* loader as it was, and "except Exception" lets through what is not an Exception
LoadModule(S, module_name, answers) ==
    IF PluginsDir[module_name].raises
    THEN IF S.import_error.is_exception
         THEN [S EXCEPT !.failed = Append(@, module_name)]
         ELSE [S EXCEPT !.status = "raised"]
    ELSE LoadAttrs(S, module_name, PluginsDir[module_name].attrs, 1, answers)

RECURSIVE LoadFiles(_, _, _, _)
LoadFiles(S, order, i, answers) ==
    IF i > Len(order) \/ S.status = "raised" THEN S
    ELSE LoadFiles(LoadModule(S, order[i], answers), order, i + 1, answers)

(***************************************************************************)
(* PluginLoader: stage runs                                                *)
(***************************************************************************)
\* what an entry point can raise: type, str(e), and whether it is an Exception
Errors ==
    {[type |-> "ValueError", message |-> "bad value", is_exception |-> TRUE],
     [type |-> "RuntimeError", message |-> "", is_exception |-> TRUE],
     [type |-> "SystemExit", message |-> "1", is_exception |-> FALSE]}

\* results[metadata.name] = {"status": "success", "result": result}
Success(name) == [status |-> "success", result |-> name]

\* results[metadata.name] = {"status": "error", "error": str(e)}
Failure(e) == [status |-> "error", error |-> e.message]

\* the context keys the entry points write before they return (sample_init writes
\* context['sample_plugin_data']); an entry point that raises has written nothing
ContextWrites == ("sample_init" :> {"sample_plugin_data"})

\* func(context=context, ...) returning normally: the mapping afterwards
CallEntry(context, name) == context \cup Get(ContextWrites, name, {})

\* the loop of run_plugins over funcs from position i; raises maps the positions of
\* the entry points that raise in this run to what they raise.  seen holds, for each
\* invocation, the context the entry point was given.
RECURSIVE RunLoop(_, _, _, _, _)
RunLoop(funcs, md, i, raises, acc) ==
    IF i > Len(funcs) THEN [acc EXCEPT !.status = "returned"]
    ELSE LET m == funcs[i]
         IN IF ~md[m].enabled
            THEN RunLoop(funcs, md, i + 1, raises, acc)
            ELSE LET called == [acc EXCEPT !.invoked = Append(@, m),
                                           !.seen = Append(@, acc.context)]
                 IN IF i \notin DOMAIN raises
                    THEN RunLoop(funcs, md, i + 1, raises,
                            [called EXCEPT !.results = Put(@, md[m].name, Success(md[m].name)),
                                           !.recorded = Append(@, m),
                                           !.context = CallEntry(@, md[m].name)])
                    ELSE IF raises[i].is_exception
                    THEN RunLoop(funcs, md, i + 1, raises,
                            [called EXCEPT !.results = Put(@, md[m].name, Failure(raises[i])),
                                           !.recorded = Append(@, m)])
                    ELSE [called EXCEPT !.status = "raised"]

Reverse(list) == [i \in 1..Len(list) |-> list[Len(list) + 1 - i]]

\* run_plugins walking the stage list from its end
RunPluginsReversed(funcs_by_stage, md, stage, raises, context) ==
    LET acc == [status |-> "returned", invoked |-> <<>>, recorded |-> <<>>,
                results |-> EmptyMap, seen |-> <<>>, context |-> context]
    IN IF stage \notin DOMAIN funcs_by_stage THEN acc
       ELSE RunLoop(Reverse(funcs_by_stage[stage]), md, 1, raises, acc)

\* run_plugins with "context = context or {}": an empty mapping of the caller is
\* replaced by a new one, and the caller's stays empty
RunPluginsOnFreshContext(funcs_by_stage, md, stage, raises, context) ==
    LET acc == [status |-> "returned", invoked |-> <<>>, recorded |-> <<>>,
                results |-> EmptyMap, seen |-> <<>>, context |-> context]
        ret == IF stage \notin DOMAIN funcs_by_stage THEN acc
               ELSE RunLoop(funcs_by_stage[stage], md, 1, raises, acc)
    IN IF context = {} THEN [ret EXCEPT !.context = {}] ELSE ret

\* PluginLoader.run_plugins, called with the caller's context mapping (not None):
\* every entry point is given that one mapping; ret.context is the mapping afterwards
RunPlugins(funcs_by_stage, md, stage, raises, context) ==
    LET acc == [status |-> "returned", invoked |-> <<>>, recorded |-> <<>>,
                results |-> EmptyMap, seen |-> <<>>, context |-> context]
    IN IF stage \notin DOMAIN funcs_by_stage THEN acc
       ELSE RunLoop(funcs_by_stage[stage], md, 1, raises, acc)

\* PluginLoader.enable_plugin / disable_plugin on the metadata heap
SetEnabled(md, registry, name, value) ==
    IF name \in DOMAIN registry
    THEN [md EXCEPT ![registry[name].metadata].enabled = value]
    ELSE md

(***************************************************************************)
(* manage_permissions.py                                                   *)
(***************************************************************************)
\* a reset that drops every permission of the plugin, whichever one is named
ResetWholePlugin(file, plugin_name, permission_name) ==
    IF file.kind # "json" THEN file
    ELSE LET permissions == JsonLoad(file)
         IN IF plugin_name \notin DOMAIN permissions THEN file
            ELSE JsonDump(Drop(permissions, plugin_name))

\* reset_plugin_permission(plugin_name, permission_name): the file afterwards
ResetPluginPermission(file, plugin_name, permission_name) ==
    IF file.kind # "json" THEN file
    ELSE LET permissions == JsonLoad(file)
         IN IF plugin_name \notin DOMAIN permissions THEN file
            ELSE IF permission_name = None
                 THEN JsonDump(Drop(permissions, plugin_name))
                 ELSE IF permission_name \in DOMAIN permissions[plugin_name]
                      THEN LET rest == Drop(permissions[plugin_name], permission_name)
                           IN IF DOMAIN rest = {}
                              THEN JsonDump(Drop(permissions, plugin_name))
                              ELSE JsonDump(Put(permissions, plugin_name, rest))
                      ELSE file

\* a reset that deletes the file whatever the operator answers
ResetPermissionsUnasked(file, choice) ==
    IF file.kind = "missing" THEN file ELSE MissingFile

\* reset_permissions(): the file afterwards, for the operator's answer
ResetPermissions(file, choice) ==
    IF file.kind = "missing" THEN file
    ELSE IF choice = "y" THEN MissingFile
    ELSE file

(***************************************************************************)
(* Initial state: a host process right after                               *)
(*   localization_manager = LocalizationManager()                          *)
(*   localization_manager.set_language("ko")                               *)
(*   PluginLoader(localization_manager=localization_manager)               *)
(***************************************************************************)
\* a store written by an earlier session
PriorStore ==
    ("sample_permission_request" :> (("read_main_locales" :> TRUE)
                                     @@ ("write_locales" :> FALSE)))

InitialFiles == {MissingFile, CorruptFile, JsonDump(PriorStore)}

PairsOf(cache) ==
    UNION {{<<n, p>> : p \in DOMAIN cache[n]} : n \in DOMAIN cache}

DecisionsOf(cache) == [pair \in PairsOf(cache) |-> cache[pair[1]][pair[2]]]

Call(op, arg, ret, prompted, writes) ==
    [op |-> op, arg |-> arg, ret |-> ret, prompted |-> prompted, writes |-> writes,
     raised |-> FALSE]

\* LocalizationManager.__init__ and PluginLoader.__init__ on the file as it is
Construct(file) ==
    /\ metadata' = <<>>
    /\ plugins' = EmptyMap
    /\ plugin_funcs' = EmptyMap
    /\ current_language' = DEFAULT_LANGUAGE
    /\ plugin_translations' = EmptyMap
    /\ permission_cache' = LoadPermissionsFromFile(EmptyMap, file)
    /\ constructed_from' = file.kind
    /\ plugin_permissions' = EmptyMap
    /\ asked' = EmptyMap
    /\ first_decision' = DecisionsOf(LoadPermissionsFromFile(EmptyMap, file))
    /\ n_loads' = 0
    /\ n_toggles' = 0
    /\ requested_enabled' = EmptyMap
    /\ default_manager' = NoManager
    /\ plugin_context' = {}

Init ==
    /\ glob_order \in GlobOrders
    /\ import_error \in ImportErrors
    /\ disk \in DiskOutcomes
    /\ stdin \in StdinStates
    /\ perm_file \in InitialFiles
    /\ metadata = <<>>
    /\ plugins = EmptyMap
    /\ plugin_funcs = EmptyMap
    /\ current_language = DEFAULT_LANGUAGE
    /\ plugin_translations = EmptyMap
    /\ permission_cache = LoadPermissionsFromFile(EmptyMap, perm_file)
    /\ constructed_from = perm_file.kind
    /\ plugin_permissions = EmptyMap
    /\ asked = EmptyMap
    /\ first_decision = DecisionsOf(LoadPermissionsFromFile(EmptyMap, perm_file))
    /\ n_loads = 0
    /\ n_toggles = 0
    /\ requested_enabled = EmptyMap
    /\ default_manager = NoManager
    /\ plugin_context = {}
    /\ last = Call("init", <<>>, None, <<>>, 0)

(***************************************************************************)
(* Actions                                                                 *)
(***************************************************************************)
\* the pairs the modules of the directory request
DeclaredPairs ==
    UNION {UNION {{<<PluginsDir[f].attrs[i].name, p>> :
                      p \in Range(PluginsDir[f].attrs[i].permissions)}
                    : i \in DOMAIN PluginsDir[f].attrs}
             : f \in Files}

StoreUpdate(L) ==
    /\ permission_cache' = L.permission_cache
    /\ plugin_permissions' = L.plugin_permissions
    /\ perm_file' = L.perm_file
    /\ asked' = L.asked
    /\ first_decision' = L.first_decision
    /\ constructed_from' = constructed_from

\* init_plugins(localization_manager) / PluginLoader.load_all_plugins
LoadAllPlugins ==
    /\ n_loads < MaxLoads
    /\ \E answers \in [DeclaredPairs -> BOOLEAN] :
         LET S == LoadFiles(LoaderState, glob_order, 1, answers)
         IN /\ metadata' = S.metadata
            /\ plugins' = S.plugins
            /\ plugin_funcs' = S.plugin_funcs
            /\ plugin_translations' = S.plugin_translations
            /\ StoreUpdate(S.store)
            /\ last' = Call("load_all_plugins", <<>>,
                            [status |-> S.status, count |-> S.plugin_count,
                             failed |-> S.failed],
                            S.store.prompted, S.store.writes)
    /\ n_loads' = n_loads + 1
    /\ UNCHANGED <<glob_order, import_error, disk, stdin, default_manager, plugin_context, current_language, n_toggles, requested_enabled>>

EnabledPositions(stage) ==
    IF stage \in DOMAIN plugin_funcs
    THEN {i \in 1..Len(plugin_funcs[stage]) : metadata[plugin_funcs[stage][i]].enabled}
    ELSE {}

\* which entry point raises in one run, and what: none, or one of the invoked ones
RaiseChoices(stage) ==
    {EmptyMap} \cup {(i :> e) : i \in EnabledPositions(stage), e \in Errors}

\* plugin_loader.run_plugins(stage, context=plugin_context)
RunStage ==
    /\ \E stage \in Stages : \E raises \in RaiseChoices(stage) :
         LET ret == RunPlugins(plugin_funcs, metadata, stage, raises, plugin_context)
         IN /\ plugin_context' = ret.context
            /\ last' = Call("run_plugins", <<stage, raises, plugin_context>>, ret, <<>>, 0)
    /\ UNCHANGED <<glob_order, import_error, disk, stdin, default_manager, current_language, plugin_translations>>
    /\ UNCHANGED loader_vars
    /\ UNCHANGED store_vars

\* the entries registered under name, whichever record plugins holds for it
EntriesNamed(name) == {m \in 1..Len(metadata) : metadata[m].name = name}

Toggle(name, value, op) ==
    /\ n_toggles < MaxToggles
    /\ metadata' = SetEnabled(metadata, plugins, name, value)
    /\ requested_enabled' =
         IF name \in DOMAIN plugins
         THEN [m \in (DOMAIN requested_enabled) \cup EntriesNamed(name) |->
                 IF m \in EntriesNamed(name) THEN value ELSE requested_enabled[m]]
         ELSE requested_enabled
    /\ last' = Call(op, <<name>>, name \in DOMAIN plugins, <<>>, 0)
    /\ n_toggles' = n_toggles + 1
    /\ UNCHANGED <<glob_order, import_error, disk, stdin, default_manager, plugin_context, plugins, plugin_funcs, n_loads, current_language,
                   plugin_translations>>
    /\ UNCHANGED store_vars

\* PluginLoader.enable_plugin
EnablePlugin == \E name \in ToggleNames : Toggle(name, TRUE, "enable_plugin")

\* PluginLoader.disable_plugin
DisablePlugin == \E name \in ToggleNames : Toggle(name, FALSE, "disable_plugin")

\* LocalizationManager.set_language
SetLanguage ==
    /\ \E language \in Languages :
         /\ current_language' =
              IF language \in Range(SUPPORTED_LANGUAGES) THEN language
              ELSE current_language
         /\ last' = Call("set_language", <<language>>,
                         language \in Range(SUPPORTED_LANGUAGES), <<>>, 0)
    /\ UNCHANGED <<glob_order, import_error, disk, stdin, default_manager, plugin_context, plugin_translations>>
    /\ UNCHANGED loader_vars
    /\ UNCHANGED store_vars

\* LocalizationManager.get_text
GetTextCall ==
    /\ \E key \in Keys : \E plugin_name \in RequestNames \cup {None} :
       \E default \in Defaults :
         last' = Call("get_text", <<key, plugin_name, default>>,
                      GetText(key, plugin_name, default), <<>>, 0)
    /\ UNCHANGED <<glob_order, import_error, disk, stdin, default_manager, plugin_context, current_language, plugin_translations>>
    /\ UNCHANGED loader_vars
    /\ UNCHANGED store_vars

\* localization._(key, plugin_name, default), and get_localization_manager().get_text
\* as the entry points of modules/plugins call it
ShorthandGetText ==
    /\ \E key \in Keys : \E plugin_name \in RequestNames \cup {None} :
       \E default \in Defaults :
         LET manager == GetLocalizationManager(default_manager, perm_file)
         IN /\ default_manager' = manager
            /\ last' = Call("_", <<key, plugin_name, default>>,
                            GetTextIn(manager.plugin_permissions, manager.plugin_translations,
                                      manager.current_language, key, plugin_name, default),
                            <<>>, 0)
    /\ UNCHANGED <<glob_order, import_error, disk, stdin, plugin_context, current_language,
                   plugin_translations>>
    /\ UNCHANGED loader_vars
    /\ UNCHANGED store_vars

PermissionLists == UNION {[1..n -> Capabilities] : n \in 0..MaxPerms}

\* LocalizationManager.request_plugin_permission
RequestPermission ==
    /\ \E plugin_name \in RequestNames : \E permissions \in PermissionLists :
       \E answers \in [{plugin_name} \X Range(permissions) -> BOOLEAN] :
         LET L == RequestPluginPermission(StoreState, plugin_name, permissions, answers)
         IN /\ StoreUpdate(L)
            /\ last' = [Call("request_plugin_permission", <<plugin_name, permissions>>,
                             L.result, L.prompted, L.writes)
                          EXCEPT !.raised = (L.status = "raised")]
    /\ UNCHANGED <<glob_order, import_error, disk, stdin, default_manager, plugin_context, current_language, plugin_translations>>
    /\ UNCHANGED loader_vars

CliReturn(file) == IF file.kind = "corrupt" THEN "raised" ELSE "returned"

\* manage_permissions.py reset-plugin <plugin> / reset-permission <plugin> <permission>
CliResetPluginPermission ==
    /\ \E plugin_name \in RequestNames \cup {"unknown_plugin"} :
       \E permission_name \in Capabilities \cup {None} :
         /\ perm_file' = ResetPluginPermission(perm_file, plugin_name, permission_name)
         /\ last' = Call("reset_plugin_permission", <<plugin_name, permission_name>>,
                         CliReturn(perm_file), <<>>,
                         IF perm_file' = perm_file THEN 0 ELSE 1)
    /\ UNCHANGED <<glob_order, import_error, disk, stdin, default_manager, plugin_context, current_language, plugin_translations,
                   permission_cache, plugin_permissions, constructed_from, asked,
                   first_decision>>
    /\ UNCHANGED loader_vars

\* manage_permissions.py reset
CliResetPermissions ==
    /\ \E choice \in {"y", "n"} :
         /\ perm_file' = ResetPermissions(perm_file, choice)
         /\ last' = Call("reset_permissions", <<choice>>, "returned", <<>>, 0)
    /\ UNCHANGED <<glob_order, import_error, disk, stdin, default_manager, plugin_context, current_language, plugin_translations,
                   permission_cache, plugin_permissions, constructed_from, asked,
                   first_decision>>
    /\ UNCHANGED loader_vars

\* the host process ends and a new one starts on the same files
Restart ==
    /\ Construct(perm_file)
    /\ last' = Call("init", <<>>, None, <<>>, 0)
    /\ UNCHANGED <<glob_order, import_error, disk, stdin, perm_file>>

Next ==
    \/ LoadAllPlugins
    \/ RunStage
    \/ EnablePlugin
    \/ DisablePlugin
    \/ SetLanguage
    \/ GetTextCall
    \/ ShorthandGetText
    \/ RequestPermission
    \/ CliResetPluginPermission
    \/ CliResetPermissions
    \/ Restart

Spec == Init /\ [][Next]_vars

\* glob() listing the directory in alphabetical order
AlphabeticalOrder == <<"broken", "sample", "sample_splash">>

\* the registry and the lifecycle runner
NextLoader ==
    \/ LoadAllPlugins
    \/ RunStage
    \/ EnablePlugin
    \/ DisablePlugin

InitLoader == Init /\ perm_file = MissingFile /\ disk = "written" /\ stdin = "tty"

SpecLoader == InitLoader /\ [][NextLoader]_vars

\* the permission store over host sessions
NextStore ==
    \/ RequestPermission
    \/ Restart

InitStore ==
    Init /\ glob_order = AlphabeticalOrder /\ import_error.is_exception /\ stdin = "tty"

SpecStore == InitStore /\ [][NextStore]_vars

\* the permission file under the maintenance CLI, next to one host session
NextMaintenance ==
    \/ RequestPermission
    \/ CliResetPluginPermission
    \/ CliResetPermissions

InitMaintenance == InitStore /\ disk = "written"

SpecMaintenance == InitMaintenance /\ [][NextMaintenance]_vars

\* the catalog
NextCatalog ==
    \/ LoadAllPlugins
    \/ SetLanguage
    \/ GetTextCall

InitCatalog ==
    /\ Init
    /\ glob_order = AlphabeticalOrder
    /\ import_error.is_exception
    /\ disk = "written"
    /\ stdin = "tty"

SpecCatalog == InitCatalog /\ [][NextCatalog]_vars

\* one host session: discovery, stage runs, permission requests, lookups
NextSession ==
    \/ LoadAllPlugins
    \/ RunStage
    \/ RequestPermission
    \/ GetTextCall

\* a session on a store with decisions of an earlier session
InitSession ==
    InitStore /\ disk = "written" /\ perm_file = JsonDump(PriorStore)

SpecSession == InitSession /\ [][NextSession]_vars

\* discovery and stage runs of a host started with or without a console
NextDiscovery ==
    \/ LoadAllPlugins
    \/ RunStage

InitDiscovery ==
    /\ Init
    /\ import_error.is_exception
    /\ disk = "written"
    /\ perm_file \in {MissingFile, JsonDump(PriorStore)}

SpecDiscovery == InitDiscovery /\ [][NextDiscovery]_vars

\* the catalog of the host and the catalog the entry points reach at run time
NextRuntime ==
    \/ LoadAllPlugins
    \/ RunStage
    \/ GetTextCall
    \/ ShorthandGetText

InitRuntime == InitCatalog /\ perm_file \in {MissingFile, JsonDump(PriorStore)}

SpecRuntime == InitRuntime /\ [][NextRuntime]_vars

(***************************************************************************)
(* Properties                                                              *)
(***************************************************************************)
Priority(m) == metadata[m].priority

StageList(stage) == Get(plugin_funcs, stage, <<>>)

RanStage == last.op = "run_plugins"

\* C1: after any sequence of discoveries every stage list is ordered by priority
\* descending, and entries of equal priority are in the order of their discovery.
C1_StageListsSorted ==
    \A stage \in DOMAIN plugin_funcs :
        \A i, j \in 1..Len(plugin_funcs[stage]) :
            i < j =>
                /\ Priority(plugin_funcs[stage][i]) >= Priority(plugin_funcs[stage][j])
                /\ Priority(plugin_funcs[stage][i]) = Priority(plugin_funcs[stage][j])
                     => plugin_funcs[stage][i] < plugin_funcs[stage][j]

\* a list where a later discovered entry of higher priority stands before an
\* earlier one, next to two entries of equal priority from different modules
C1_Witness ==
    \E stage \in DOMAIN plugin_funcs :
        LET l == plugin_funcs[stage]
        IN /\ \E i, j \in 1..Len(l) :
                i < j /\ Priority(l[i]) > Priority(l[j]) /\ l[i] > l[j]
           /\ \E i, j \in 1..Len(l) :
                /\ i < j
                /\ Priority(l[i]) = Priority(l[j])
                /\ metadata[l[i]].module # metadata[l[j]].module

\* C2: when one entry point of a stage raises, every other enabled entry point of the
\* stage is still invoked, run_plugins returns normally, and the outcome of the
\* raising entry has status "error" with a non-empty cause description.  Stated for
\* the errors run_plugins catches (subclasses of Exception).
C2_RaiserReportedOthersRun ==
    (RanStage /\ \E i \in DOMAIN last.arg[2] : last.arg[2][i].is_exception) =>
        LET stage == last.arg[1]
            l == StageList(stage)
            out == last.ret
        IN /\ out.status = "returned"
           /\ \A i \in 1..Len(l) : metadata[l[i]].enabled => l[i] \in Range(out.invoked)
           /\ \A i \in DOMAIN last.arg[2] :
                /\ metadata[l[i]].name \in DOMAIN out.results
                /\ out.results[metadata[l[i]].name].status = "error"
                /\ out.results[metadata[l[i]].name].error # ""

\* C3: a disabled entry point is never invoked; after enable_plugin(name) returned true
\* the next run of the entry's stage invokes it, and after disable_plugin(name)
\* returned true no run invokes it until it is enabled again.  Stated for the runs in
\* which no entry point raises.
C3_EnableDisableHonoured ==
    (RanStage /\ last.arg[2] = EmptyMap) =>
        LET l == StageList(last.arg[1])
        IN \A i \in 1..Len(l) :
             /\ ~metadata[l[i]].enabled => l[i] \notin Range(last.ret.invoked)
             /\ l[i] \in DOMAIN requested_enabled =>
                  (requested_enabled[l[i]] <=> l[i] \in Range(last.ret.invoked))

\* C4: on one store the operator is prompted at most once for each (extension,
\* capability) pair, and every request returns, for each pair, the decision
\* recorded for it the first time.
C4_PromptedAtMostOnce ==
    /\ \A pair \in DOMAIN asked : asked[pair] <= 1
    /\ last.op = "request_plugin_permission" =>
         \A p \in Range(last.arg[2]) :
            /\ p \in DOMAIN last.ret
            /\ <<last.arg[1], p>> \in DOMAIN first_decision
            /\ last.ret[p] = first_decision[<<last.arg[1], p>>]

\* a request answered from the cache for a pair the operator was asked about earlier
C4_Witness ==
    /\ last.op = "request_plugin_permission"
    /\ \E p \in Range(last.arg[2]) :
         /\ Get(asked, <<last.arg[1], p>>, 0) = 1
         /\ <<last.arg[1], p>> \notin Range(last.prompted)

DecisionRecord(cache, plugin_name, permission) ==
    IF IsCached(cache, plugin_name, permission)
    THEN <<"decided", cache[plugin_name][permission]>>
    ELSE <<"undecided", FALSE>>

\* C5: recording a granted decision for capability X of extension A changes neither
\* the recorded decision nor the effective permission of any other extension B for X.
C5_GrantIsPerExtension ==
    [][\A A \in RequestNames : \A X \in Capabilities :
         (/\ last'.op = "request_plugin_permission"
          /\ last'.arg[1] = A
          /\ <<A, X>> \in Range(last'.prompted)
          /\ last'.ret[X])
         => \A B \in RequestNames \ {A} :
              /\ DecisionRecord(permission_cache', B, X)
                   = DecisionRecord(permission_cache, B, X)
              /\ CheckPermission(B, X)' = CheckPermission(B, X)]_vars

\* X was just granted to A while B, which has a permission list, holds a denial of X
C5_Witness ==
    /\ last.op = "request_plugin_permission"
    /\ \E X \in Capabilities : \E B \in RequestNames \ {last.arg[1]} :
         /\ <<last.arg[1], X>> \in Range(last.prompted)
         /\ last.ret[X]
         /\ CheckPermission(last.arg[1], X)
         /\ DecisionRecord(permission_cache, B, X) = <<"decided", FALSE>>
         /\ B \in DOMAIN plugin_permissions
         /\ ~CheckPermission(B, X)

FilePairs(file) == PairsOf(LoadPermissionsFromFile(EmptyMap, file))

FileDecisions(file) == DecisionsOf(LoadPermissionsFromFile(EmptyMap, file))

\* C6: reset_plugin_permission(extension, capability) removes exactly that record
\* from the backing file: every other record is present with the same value after.
C6_ResetRemovesOnePair ==
    [][(last'.op = "reset_plugin_permission" /\ last'.arg[2] # None) =>
         /\ FilePairs(perm_file') = FilePairs(perm_file) \ {<<last'.arg[1], last'.arg[2]>>}
         /\ \A pair \in FilePairs(perm_file') :
              FileDecisions(perm_file')[pair] = FileDecisions(perm_file)[pair]]_vars

\* a reset that removed a pair and left a pair of the same extension and a pair of
\* another extension in the file
C6_Witness ==
    /\ last.op = "reset_plugin_permission"
    /\ last.arg[2] # None
    /\ last.writes = 1
    /\ \E pair \in FilePairs(perm_file) : pair[1] = last.arg[1]
    /\ \E pair \in FilePairs(perm_file) : pair[1] # last.arg[1]

LookedUpTable ==
    IF last.arg[2] = None THEN MainLocales
    ELSE Get(plugin_translations, last.arg[2], EmptyMap)

\* C7: for every supported language setting, get_text returns the value of the
\* fallback language (FALLBACK_LANGUAGE) for a key absent in the current language
\* and present in the fallback language, and the literal key for a key absent in
\* both when no default is supplied.
C7_FallbackThenKey ==
    (last.op = "get_text" /\ last.arg[3] = None) =>
        LET key == last.arg[1]
            table == LookedUpTable
        IN /\ (~HasKey(table, current_language, key)
               /\ HasKey(table, FALLBACK_LANGUAGE, key))
                 => last.ret = table[FALLBACK_LANGUAGE][key]
           /\ (~HasKey(table, current_language, key)
               /\ ~HasKey(table, FALLBACK_LANGUAGE, key))
                 => last.ret = key

Denied(plugin_name, permission) ==
    DecisionRecord(permission_cache, plugin_name, permission) = <<"decided", FALSE>>

MainValues == UNION {Range(MainLocales[l]) : l \in DOMAIN MainLocales}

OnlyInMain(key, plugin_name) ==
    /\ \E l \in DOMAIN MainLocales : key \in DOMAIN MainLocales[l]
    /\ \A l \in DOMAIN PluginLocales : key \notin DOMAIN PluginLocales[l]
    /\ plugin_name \in DOMAIN plugin_translations =>
         \A l \in DOMAIN plugin_translations[plugin_name] :
            key \notin DOMAIN plugin_translations[plugin_name][l]

\* C8: after the operator denied the global-catalog capability to an extension,
\* get_text(key, scope = that extension) with no default, for a key that exists only
\* in the host's global namespace, returns the literal key and not the global value.
C8_DeniedScopeGetsKey ==
    (/\ last.op = "get_text"
     /\ last.arg[2] # None
     /\ last.arg[3] = None
     /\ Denied(last.arg[2], "read_main_locales")
     /\ OnlyInMain(last.arg[1], last.arg[2]))
    => (last.ret = last.arg[1] /\ last.ret \notin MainValues)

\* the denied extension, its translations loaded, asks for a key of the host
C8_Witness ==
    /\ last.op = "get_text"
    /\ last.arg[2] # None
    /\ last.arg[3] = None
    /\ Denied(last.arg[2], "read_main_locales")
    /\ last.arg[2] \in DOMAIN plugin_translations
    /\ OnlyInMain(last.arg[1], last.arg[2])
    /\ HasKey(MainLocales, current_language, last.arg[1])
    /\ last.ret = last.arg[1]

\* C9: within one run_plugins call the entry points are invoked one after another in
\* non-increasing priority order, whatever the discovery order, each outcome recorded
\* before the next invocation: an entry is invoked only after every enabled entry of
\* strictly higher priority of its stage was invoked and had its outcome recorded.
C9_RunInPriorityOrder ==
    RanStage =>
        LET inv == last.ret.invoked
            rec == last.ret.recorded
            l == StageList(last.arg[1])
        IN /\ \A i, j \in 1..Len(inv) : i < j =>
                (Priority(inv[i]) >= Priority(inv[j]) /\ inv[i] # inv[j])
           /\ Len(rec) <= Len(inv)
           /\ rec = SubSeq(inv, 1, Len(rec))
           /\ \A j \in 1..Len(inv) : \A h \in 1..Len(l) :
                (metadata[l[h]].enabled /\ Priority(l[h]) > Priority(inv[j]))
                => \E i \in 1..Len(rec) : i < j /\ rec[i] = l[h]

\* a run that invoked an entry of priority 5 before an entry of priority 1 that was
\* discovered earlier
C9_Witness ==
    /\ RanStage
    /\ \E i, j \in 1..Len(last.ret.recorded) :
         /\ i < j
         /\ Priority(last.ret.recorded[i]) = 5
         /\ Priority(last.ret.recorded[j]) = 1
         /\ last.ret.recorded[i] > last.ret.recorded[j]

\* C10: saving the permission store and loading the file into a fresh store yields
\* the same decision for every pair of the cache, and no additional pair (for a save
\* whose write went through).
C10_SaveLoadRoundTrip ==
    /\ LoadPermissionsFromFile(EmptyMap, JsonDump(permission_cache)) = permission_cache
    /\ (last.op = "request_plugin_permission" /\ last.writes > 0 /\ disk = "written") =>
         /\ perm_file.kind = "json"
         /\ FilePairs(perm_file) = PairsOf(permission_cache)
         /\ \A pair \in PairsOf(permission_cache) :
              FileDecisions(perm_file)[pair] = permission_cache[pair[1]][pair[2]]

\* a save of a cache with granted and denied decisions of two extensions
C10_Witness ==
    /\ last.op = "request_plugin_permission"
    /\ last.writes > 0
    /\ Cardinality(DOMAIN permission_cache) = 2
    /\ \E pair \in PairsOf(permission_cache) : permission_cache[pair[1]][pair[2]]
    /\ \E pair \in PairsOf(permission_cache) : ~permission_cache[pair[1]][pair[2]]

Outcomes == last.ret.results

\* C11: the mapping returned by run_plugins holds, for every entry of the stage that
\* was skipped because enabled is false, an outcome marked "skipped" under the
\* entry's name.
C11_SkippedOutcomeRecorded ==
    (RanStage /\ last.ret.status = "returned") =>
        LET l == StageList(last.arg[1])
        IN \A i \in 1..Len(l) :
             ~metadata[l[i]].enabled =>
                /\ metadata[l[i]].name \in DOMAIN Outcomes
                /\ Outcomes[metadata[l[i]].name].status = "skipped"

\* C12: when an entry point raises during run_plugins, the outcome recorded for it
\* carries the error's type name, its message and the stack trace text.
C12_ErrorOutcomeCarriesTypeAndTrace ==
    RanStage =>
        LET l == StageList(last.arg[1])
        IN \A i \in DOMAIN last.arg[2] :
             last.arg[2][i].is_exception =>
                LET name == metadata[l[i]].name
                IN /\ name \in DOMAIN Outcomes
                   /\ Outcomes[name].status = "error"
                   /\ Outcomes[name].error = last.arg[2][i].message
                   /\ "type" \in DOMAIN Outcomes[name]
                   /\ "traceback" \in DOMAIN Outcomes[name]

\* the files of the directory whose import succeeds
GoodFiles == {f \in Files : ~PluginsDir[f].raises}

\* the entry points the importable files declare
DeclaredEntries ==
    UNION {{<<f, i>> : i \in DOMAIN PluginsDir[f].attrs} : f \in GoodFiles}

\* the entries registered for declaration i of file f, over all discoveries so far
RegisteredFor(f, i) ==
    {m \in 1..Len(metadata) :
        /\ metadata[m].module = f
        /\ metadata[m].name = PluginsDir[f].attrs[i].name
        /\ \E k \in 1..Len(StageList(metadata[m].stage)) :
              StageList(metadata[m].stage)[k] = m}

\* C13: load_all_plugins never raises because of one candidate file: when loading
\* one file fails, every other candidate file is still processed, its entry points
\* are registered, and the call returns a count.
C13_BadFileDoesNotAbortDiscovery ==
    last.op = "load_all_plugins" =>
        /\ last.ret.status = "returned"
        /\ last.ret.count = Cardinality(DeclaredEntries)
        /\ \A f \in GoodFiles : \A i \in DOMAIN PluginsDir[f].attrs :
              Cardinality(RegisteredFor(f, i)) = n_loads

\* C14: once a pair has a recorded decision in a store, no operation of the host
\* session (request_plugin_permission, discovery, stage runs, lookups) changes the
\* decision or returns the pair to undecided.
C14_DecisionsAreTerminal ==
    [][\A pair \in PairsOf(permission_cache) :
          /\ pair \in PairsOf(permission_cache')
          /\ permission_cache'[pair[1]][pair[2]] = permission_cache[pair[1]][pair[2]]]_vars

\* a request, after a discovery, that named a pair denied earlier in the session
\* and asked the operator about another pair only
C14_Witness ==
    /\ last.op = "request_plugin_permission"
    /\ n_loads > 0
    /\ last.prompted # <<>>
    /\ \E p \in Range(last.arg[2]) :
         /\ <<last.arg[1], p>> \notin Range(last.prompted)
         /\ Get(asked, <<last.arg[1], p>>, 0) = 1
         /\ ~permission_cache[last.arg[1]][p]

\* C15: whenever request_plugin_permission has returned, every decision of the
\* in-memory permission_cache is in the backing file with the same value, for every
\* outcome of the file write and every initial state of the file.
C15_CacheIsInFile ==
    last.op = "request_plugin_permission" =>
        \A pair \in PairsOf(permission_cache) :
            /\ pair \in FilePairs(perm_file)
            /\ FileDecisions(perm_file)[pair] = permission_cache[pair[1]][pair[2]]

\* C16: one request_plugin_permission call writes the backing file exactly once if
\* it recorded at least one new decision, however many capabilities it decided, and
\* not at all if every requested capability already had a record.
C16_OneWritePerRequest ==
    last.op = "request_plugin_permission" =>
        last.writes = IF last.prompted = <<>> THEN 0 ELSE 1

\* a request that decided two capabilities, and one write
C16_Witness ==
    /\ last.op = "request_plugin_permission"
    /\ Len(last.prompted) = 2
    /\ last.writes = 1
    /\ FilePairs(perm_file) = PairsOf(permission_cache)

\* the records a reset command is asked to remove
ResetTarget(call, file) ==
    IF call.op = "reset_permissions"
    THEN IF call.arg[1] = "y" THEN FilePairs(file) ELSE {}
    ELSE {pair \in FilePairs(file) :
             /\ pair[1] = call.arg[1]
             /\ call.arg[2] # None => pair[2] = call.arg[2]}

\* the resets that find nothing to remove: the file is missing, the operator answers
\* no, the extension is unknown, the capability is unknown
NothingToRemove(call, file) ==
    \/ file.kind = "missing"
    \/ call.op = "reset_permissions" /\ call.arg[1] = "n"
    \/ /\ call.op = "reset_plugin_permission"
       /\ file.kind = "json"
       /\ ResetTarget(call, file) = {}

\* C17: an administrative reset that removes at least one record leaves a backing
\* store without the removed records; a reset that finds nothing to remove leaves
\* the backing file unchanged.
C17_ResetPersistsOrLeavesFile ==
    [][last'.op \in {"reset_permissions", "reset_plugin_permission"} =>
         /\ ResetTarget(last', perm_file) # {} =>
               FilePairs(perm_file') \cap ResetTarget(last', perm_file) = {}
         /\ NothingToRemove(last', perm_file) => perm_file' = perm_file]_vars

\* all records of one extension were removed and another extension's remain
C17_Witness ==
    /\ last.op = "reset_plugin_permission"
    /\ last.arg[2] = None
    /\ last.writes = 1
    /\ \A pair \in FilePairs(perm_file) : pair[1] # last.arg[1]
    /\ FilePairs(perm_file) # {}

StartedWithoutFile == constructed_from \in {"missing", "corrupt"}

\* C18: when the permission file is missing or unparseable at construction, the
\* LocalizationManager is constructed with an empty permission_cache, and a save
\* caused by a new decision replaces the file content with exactly the decisions
\* made in this session.
C18_UnreadableFileIsReplaced ==
    StartedWithoutFile =>
        /\ last.op = "init" => permission_cache = EmptyMap
        /\ (/\ last.op = "request_plugin_permission"
            /\ last.prompted # <<>>
            /\ disk = "written")
           => /\ perm_file.kind = "json"
              /\ FileDecisions(perm_file) = first_decision
              /\ Range(last.prompted) \subseteq FilePairs(perm_file)

\* the first save of a session constructed on an unparseable file
C18_Witness ==
    /\ constructed_from = "corrupt"
    /\ last.op = "request_plugin_permission"
    /\ last.prompted # <<>>
    /\ disk = "written"
    /\ perm_file.kind = "json"
    /\ FilePairs(perm_file) = Range(last.prompted)

\* C19: for every extension that declares permissions, the permission request and
\* every operator prompt it causes happen during load_all_plugins, before the first
\* invocation of its entry point by run_plugins; no prompt occurs during a stage run.
C19_RequestedBeforeInvoked ==
    /\ RanStage =>
         /\ last.prompted = <<>>
         /\ \A i \in 1..Len(last.ret.invoked) :
              LET m == last.ret.invoked[i]
              IN \A p \in Range(metadata[m].permissions) :
                    IsCached(permission_cache, metadata[m].name, p)
    /\ \A pair \in DOMAIN asked : asked[pair] > 0 => n_loads > 0

\* a run that invoked the entry point whose permission the operator was asked about
\* during discovery
C19_Witness ==
    /\ RanStage
    /\ \E i \in 1..Len(last.ret.invoked) :
         LET m == last.ret.invoked[i]
         IN /\ metadata[m].permissions # <<>>
            /\ \A p \in Range(metadata[m].permissions) :
                  Get(asked, <<metadata[m].name, p>>, 0) = 1

\* the translations the host's global namespace holds for key
MainTranslations(key) ==
    {MainLocales[l][key] : l \in {x \in DOMAIN MainLocales : key \in DOMAIN MainLocales[x]}}

\* C20: after an extension has been granted read_main_locales, get_text(key, scope =
\* that extension), for a key defined in the host's global namespace and not in the
\* extension's own namespace, returns the global namespace's translation.
C20_GrantedScopeReadsMain ==
    (/\ last.op = "get_text"
     /\ last.arg[2] # None
     /\ CheckPermission(last.arg[2], "read_main_locales")
     /\ OnlyInMain(last.arg[1], last.arg[2]))
    => last.ret \in MainTranslations(last.arg[1])

\* the key is in none of the tables get_text consults for this call
FoundNowhere(key) ==
    \A l \in {current_language, "ko", "en"} : ~HasKey(LookedUpTable, l, key)

\* C21: when the key is found in no translation table consulted by get_text and the
\* caller supplied a default, get_text returns exactly that default, for every
\* default string; the literal key is returned only when no default was supplied.
C21_DefaultReturnedExactly ==
    (last.op = "get_text" /\ FoundNowhere(last.arg[1])) =>
        last.ret = IF last.arg[3] = None THEN last.arg[1] ELSE last.arg[3]

\* the entries that raised in the run recorded in call
Raisers(funcs, call) ==
    {Get(funcs, call.arg[1], <<>>)[i] : i \in DOMAIN call.arg[2]}

\* the keys written, in the run recorded in call, by the entry points invoked
\* before the j-th invocation that returned normally
WrittenBefore(md, funcs, call, j) ==
    UNION {Get(ContextWrites, md[call.ret.invoked[i]].name, {}) :
              i \in {k \in 1..Len(call.ret.invoked) :
                        k < j /\ call.ret.invoked[k] \notin Raisers(funcs, call)}}

\* C22: all entry points invoked by run_plugins receive the same context mapping: each
\* is given the host's plugin_context with the keys written by the entry points invoked
\* before it in the run, and the keys written in a run stay in plugin_context for the
\* entry points of every later stage run.
C22_ContextIsShared ==
    [][last'.op = "run_plugins" =>
         /\ Len(last'.ret.seen) = Len(last'.ret.invoked)
         /\ \A j \in 1..Len(last'.ret.invoked) :
               last'.ret.seen[j] = plugin_context \cup WrittenBefore(metadata', plugin_funcs', last', j)
         /\ plugin_context' =
               plugin_context \cup WrittenBefore(metadata', plugin_funcs', last', Len(last'.ret.invoked) + 1)]_vars

\* a splash run whose entry points were given the key sample_init wrote in an earlier
\* pre-main run
C22_Witness ==
    /\ RanStage
    /\ last.arg[1] = "splash"
    /\ "sample_plugin_data" \in last.arg[3]
    /\ Len(last.ret.invoked) >= 2
    /\ \A j \in 1..Len(last.ret.seen) : "sample_plugin_data" \in last.ret.seen[j]

\* the entries of module f that are in the name table or in a stage list
RegistryEntriesOf(f) ==
    {m \in 1..Len(metadata) :
        /\ metadata[m].module = f
        /\ \/ \E name \in DOMAIN plugins : plugins[name].metadata = m
           \/ \E stage \in DOMAIN plugin_funcs : m \in Range(plugin_funcs[stage])}

\* the entries a run of stage would invoke now, no entry point raising
InvokedNow(stage) ==
    Range(RunPlugins(plugin_funcs, metadata, stage, EmptyMap, plugin_context).invoked)

\* C23: a module whose processing failed during load_all_plugins, for any failure
\* caught by the handler of the file, has no entry point in plugins or in a stage
\* list, and none that a stage run invokes.
C23_FailedModuleContributesNothing ==
    last.op = "load_all_plugins" =>
        \A f \in Range(last.ret.failed) :
            /\ RegistryEntriesOf(f) = {}
            /\ \A stage \in Stages : \A m \in InvokedNow(stage) : metadata[m].module # f

\* the decision cache records the pair as granted
CachedGranted(plugin_name, permission) ==
    DecisionRecord(permission_cache, plugin_name, permission) = <<"decided", TRUE>>

\* C24: the effective permission agrees with the decision cache: once
\* request_plugin_permission has returned for a pair, the capability is in
\* plugin_permissions[extension] exactly when permission_cache records the pair as
\* granted, whether the decision was prompted in this session or loaded from the
\* backing file.
C24_EffectiveAgreesWithCache ==
    last.op = "request_plugin_permission" =>
        \A p \in Range(last.arg[2]) :
            /\ CheckPermission(last.arg[1], p) <=> CachedGranted(last.arg[1], p)
            /\ p \in GetPluginPermissions(last.arg[1]) <=> CachedGranted(last.arg[1], p)

\* C25: when the maintenance CLI has removed a record from the backing file while a
\* host session that loaded the store earlier is running, a later save by that
\* session does not bring the record back: the save adds to the file only the
\* decisions recorded by the request that causes it.
C25_SaveDoesNotRestoreRemoved ==
    [][(last'.op = "request_plugin_permission" /\ last'.writes > 0) =>
         \A pair \in FilePairs(perm_file') :
            pair \in FilePairs(perm_file) \/ pair \in Range(last'.prompted)]_vars

\* C26: the catalog the entry points query at run time through
\* get_localization_manager() holds the extension translations and the granted
\* capabilities of the catalog discovery populated in the host: a lookup scoped to an
\* extension whose translations discovery loaded returns what the host's catalog
\* returns for it.
C26_RuntimeCatalogIsHostCatalog ==
    (last.op = "_" /\ last.arg[2] \in DOMAIN plugin_translations) =>
        /\ default_manager.plugin_translations = plugin_translations
        /\ default_manager.plugin_permissions = plugin_permissions
        /\ last.ret = GetText(last.arg[1], last.arg[2], last.arg[3])

\* the entries of all stage lists
ListedEntries == UNION {Range(plugin_funcs[stage]) : stage \in DOMAIN plugin_funcs}

\* C27: the name-keyed table and the stage lists agree after any sequence of
\* discoveries: every entry of a stage list is the entry plugins holds under its name,
\* no name occurs twice across the stage lists, and disable_plugin(name) stops every
\* entry point registered under that name.
C27_TableAndListsAgree ==
    /\ \A m \in ListedEntries :
          /\ metadata[m].name \in DOMAIN plugins
          /\ plugins[metadata[m].name].metadata = m
    /\ \A m, k \in ListedEntries : metadata[m].name = metadata[k].name => m = k
    /\ RanStage =>
          \A m \in Range(last.ret.invoked) :
              m \in DOMAIN requested_enabled => requested_enabled[m]

\* how often the last run invoked an entry point of declaration i of file f
TimesInvoked(f, i) ==
    Cardinality({k \in 1..Len(last.ret.invoked) :
                    /\ metadata[last.ret.invoked[k]].module = f
                    /\ metadata[last.ret.invoked[k]].name = PluginsDir[f].attrs[i].name})

\* C28: discovery is idempotent: after load_all_plugins was called twice on the same
\* loader with an unchanged directory every stage list holds the entries one call
\* leaves, one per declared entry point, and a run invokes each entry point once.
C28_DiscoveryIsIdempotent ==
    \A d \in DeclaredEntries :
        /\ Cardinality(RegisteredFor(d[1], d[2])) <= 1
        /\ RanStage => TimesInvoked(d[1], d[2]) <= 1

\* translation namespaces another extension could have instead of its own
OtherNamespaces ==
    {[ko |-> ("greeting" :> "other:greeting") @@ ("common.title" :> "other:common.title")],
     [en |-> ("missing.key" :> "other:missing.key")],
     EmptyMap}

\* the catalogs that differ from the present one in the namespace of B only
CatalogsDifferingIn(B) ==
    {Put(plugin_translations, B, T) : T \in OtherNamespaces}
        \cup {Drop(plugin_translations, B)}

\* C29: the result of a lookup scoped to extension A does not depend on the
\* translation namespace of any other extension B: every catalog that differs from
\* the present one in B's namespace only returns the same string for the same
\* lookup, and loading B's translations leaves A's namespace as it was.
C29_ScopedLookupIgnoresOthers ==
    /\ (last.op = "get_text" /\ last.arg[2] # None) =>
          \A B \in PluginNames \ {last.arg[2]} : \A catalog \in CatalogsDifferingIn(B) :
              GetTextIn(plugin_permissions, catalog, current_language,
                        last.arg[1], last.arg[2], last.arg[3]) = last.ret
    /\ \A A \in DOMAIN plugin_translations : \A B \in PluginNames \ {A} :
          LoadPluginTranslations(plugin_translations, B)[A] = plugin_translations[A]

\* a lookup scoped to A, whose loaded namespace lacks the key, while another
\* extension holds translations and could hold the key
C29_Witness ==
    /\ last.op = "get_text"
    /\ last.arg[2] \in DOMAIN plugin_translations
    /\ last.ret = last.arg[1]
    /\ \E B \in DOMAIN plugin_translations : B # last.arg[2]
    /\ \E T \in OtherNamespaces : \E l \in DOMAIN T : last.arg[1] \in DOMAIN T[l]

\* the declaration entry m was registered from
DeclarationOf(m) ==
    LET attrs == PluginsDir[metadata[m].module].attrs
    IN attrs[CHOOSE i \in DOMAIN attrs : attrs[i].name = metadata[m].name]

\* the entries of the extensions with a denied capability among those they declare
DeniedEntries ==
    {m \in 1..Len(metadata) :
        \E p \in Range(metadata[m].permissions) : Denied(metadata[m].name, p)}

\* the declared entry points that request a capability
RequestingDeclarations ==
    {d \in DeclaredEntries : PluginsDir[d[1]].attrs[d[2]].permissions # <<>>}

\* C30: a denied capability never removes or disables an extension: every discovery
\* that returned registers each requesting entry point whatever the operator
\* answered, an entry whose requested capability was denied stays in the name table
\* and in its stage list with enabled as declared, and a run of its stage that
\* returns invokes it.
C30_DeniedStaysRegistered ==
    /\ (last.op = "load_all_plugins" /\ last.ret.status = "returned") =>
          \A d \in RequestingDeclarations : Cardinality(RegisteredFor(d[1], d[2])) = n_loads
    /\ \A m \in DeniedEntries :
          /\ m \in ListedEntries
          /\ metadata[m].name \in DOMAIN plugins
          /\ m \notin DOMAIN requested_enabled =>
                metadata[m].enabled = DeclarationOf(m).enabled
          /\ (/\ RanStage
              /\ last.arg[1] = metadata[m].stage
              /\ last.ret.status = "returned"
              /\ metadata[m].enabled)
             => m \in Range(last.ret.invoked)

\* a splash run that invoked the entry point whose read_main_locales request the
\* operator denied during discovery
C30_Witness ==
    /\ RanStage
    /\ last.ret.status = "returned"
    /\ \E m \in DeniedEntries :
          /\ Get(asked, <<metadata[m].name, "read_main_locales">>, 0) = 1
          /\ m \in Range(last.ret.invoked)
          /\ metadata[m].name \in DOMAIN last.ret.results
          /\ last.ret.results[metadata[m].name].status = "success"

====
